---- MODULE Spec2Model ----
(***************************************************************************)
(* kq_fx: a shared-memory FX rate cache for PostgreSQL (src/src/lib.rs).   *)
(*                                                                         *)
(* State: the control struct (cache_filled, cache_being_filled), the xuid  *)
(* map and the data map, each behind its own LWLock, plus one program      *)
(* counter per backend process.  The backing tables read by the three      *)
(* queries are part of the state (q2_rows, q3_rows); q1_reads, q2_reads    *)
(* and q3_reads count the executions of the three queries.                 *)
(*                                                                         *)
(* Dates are PostgreSQL epoch days (Date::to_pg_epoch_days), rates are     *)
(* integers standing for f64 values.                                       *)
(***************************************************************************)
EXTENDS Integers, Sequences, FiniteSets, TLC

(* ---------------------------------------------------------------- bounds *)

\* Backend processes running concurrently.
NumProcs == 2

\* Calls the backends may start in total.
MaxCalls == 3

\* Dates of the rows are 1..MaxDate; queries range over 0..MaxDate+1.
MaxDate == 3

\* Longest sequence handed to the lookups.
MaxLen == 3

\* Longest rate feed of the concurrent specification.
MaxRows == 2

(* ------------------------------------------------------------- constants *)

\* Capacities of the heapless containers, scaled down.
MAX_ENTRIES == 3

MAX_CURRENCIES == 2

MAX_ID_PAIRS == 2

Procs == 1..NumProcs

NoProc == 0

CurrencyIds == {1, 2}

Dates == 1..MaxDate

QueryDates == 0..(MaxDate + 1)

(* ------------------------------------------------------ Option<f64> etc. *)

Some(v) == [tag |-> "some", val |-> v]

None == [tag |-> "none", val |-> 0]

\* error!() / a panic: the call ends with a PostgreSQL ERROR.
Raised == [tag |-> "error", val |-> 0]

\* A call that returns a fixed string ("Cache populated." ...).
Done == [tag |-> "ok", val |-> 0]

NoResult == [tag |-> "pending", val |-> 0]

(* ------------------------------------------------------------- the maps *)

EmptyMap == [k \in {} |-> 0]

\* Mutant: the map grows past its capacity.
XuidInsert_Unbounded(map, xuid, id) ==
    [map |-> [k \in DOMAIN map \cup {xuid} |-> IF k = xuid THEN id ELSE map[k]],
     ok |-> TRUE]

\* heapless::FnvIndexMap::insert on CurrencyXuidMap (line 224): a new key
\* needs a free slot, an existing key is overwritten.
XuidInsert(map, xuid, id) ==
    IF xuid \in DOMAIN map
    THEN [map |-> [map EXCEPT ![xuid] = id], ok |-> TRUE]
    ELSE IF Cardinality(DOMAIN map) < MAX_CURRENCIES
         THEN [map |-> [k \in DOMAIN map \cup {xuid} |->
                            IF k = xuid THEN id ELSE map[k]],
               ok |-> TRUE]
         ELSE [map |-> map, ok |-> FALSE]

\* The identity loop (lines 211-229) over the first n rows; it stops at the
\* first insert that does not fit.
RECURSIVE LoadXuids(_, _, _)
LoadXuids(map, rows, n) ==
    IF n = 0
    THEN [map |-> map, ok |-> TRUE]
    ELSE LET prev == LoadXuids(map, rows, n - 1)
         IN  IF prev.ok
             THEN XuidInsert(prev.map, rows[n].xuid, rows[n].id)
             ELSE prev

\* data_map.entry((from_id, to_id)) (lines 263-279): a vacant entry gets a new
\* vector holding the row, an occupied one has the row pushed at its end.
RateInsert(map, row) ==
    LET key == <<row.from, row.to>>
        entry == <<row.date, row.rate>>
    IN  IF key \in DOMAIN map
        THEN IF Len(map[key]) < MAX_ENTRIES
             THEN [map |-> [map EXCEPT ![key] = Append(@, entry)], ok |-> TRUE]
             ELSE [map |-> map, ok |-> FALSE]
        ELSE IF Cardinality(DOMAIN map) < MAX_ID_PAIRS
             THEN [map |-> [k \in DOMAIN map \cup {key} |->
                                IF k = key THEN <<entry>> ELSE map[k]],
                   ok |-> TRUE]
             ELSE [map |-> map, ok |-> FALSE]

\* The rate loop (lines 242-290) over the first n rows.
RECURSIVE LoadRates(_, _, _)
LoadRates(map, rows, n) ==
    IF n = 0
    THEN [map |-> map, ok |-> TRUE]
    ELSE LET prev == LoadRates(map, rows, n - 1)
         IN  IF prev.ok
             THEN RateInsert(prev.map, rows[n])
             ELSE prev

(* ------------------------------------------------------------- variables *)

VARIABLES
    cache_filled,        \* CurrencyControl.cache_filled
    cache_being_filled,  \* CurrencyControl.cache_being_filled
    xuid_map,            \* CURRENCY_XUID_MAP: xuid -> id
    data_map,            \* CURRENCY_DATA_MAP: <<from, to>> -> Seq(<<date, rate>>)
    xuid_w,              \* exclusive holder of the xuid map lock, or NoProc
    xuid_r,              \* shared holders of the xuid map lock
    data_w,              \* exclusive holder of the data map lock, or NoProc
    pc,                  \* where each backend is in its call
    op,                  \* the call each backend is in (or made last)
    result,              \* what each backend's last call returned
    calls,               \* calls started so far
    q2_rows,             \* plan.currency as query Q2 returns it
    q3_rows,             \* plan.fx_rate as query Q3 returns it
    q1_reads,            \* executions of the validation query
    q2_reads,            \* executions of the identity query
    q3_reads,            \* executions of the rate query
    invalidations        \* kq_fx_invalidate_cache calls started

control == <<cache_filled, cache_being_filled>>

maps == <<xuid_map, data_map>>

locks == <<xuid_w, xuid_r, data_w>>

tables == <<q2_rows, q3_rows>>

reads == <<q1_reads, q2_reads, q3_reads>>

vars == <<cache_filled, cache_being_filled, xuid_map, data_map, xuid_w, xuid_r,
          data_w, pc, op, result, calls, q2_rows, q3_rows, q1_reads,
          q2_reads, q3_reads, invalidations>>

\* A call: the exported function and its arguments.  dates, values and
\* default are the arguments of the standalone lookups.
Call(name, from, to, xfrom, xto, date, dates, values, default) ==
    [name |-> name, from |-> from, to |-> to, xfrom |-> xfrom, xto |-> xto,
     date |-> date, dates |-> dates, values |-> values, default |-> default]

NoCall == Call("none", 0, 0, "", "", 0, <<>>, <<>>, None)

(* ------------------------------------------------------------ the feeds *)

\* Rows of plan.currency as Q2 returns them (id, xuid).
IdentityFeeds ==
    { << [id |-> 1, xuid |-> "usd"], [id |-> 2, xuid |-> "cad"] >> }

Xuids == {"usd", "USD", "cad", "eur"}

IdPairs == {<<1, 2>>, <<2, 1>>}

\* Dates of the rows of the concurrent specification.
FeedDates == {1, 2}

\* The i-th row of a feed carries the rate 10 * i, so that rows stay
\* distinguishable after loading.
Stamp(keys) ==
    [i \in DOMAIN keys |->
        [from |-> keys[i][1], to |-> keys[i][2], date |-> keys[i][3],
         rate |-> 10 * i]]

RowKeys == {<<pr[1], pr[2], d>> : pr \in IdPairs, d \in FeedDates}

\* Rows of plan.fx_rate as Q3 returns them, in any order (the query is a GUC
\* and its ORDER BY is not checked).
RateFeeds ==
    {Stamp(keys) : keys \in {k \in UNION {[1..n -> RowKeys] : n \in 1..MaxRows} :
                                 k[1][1] = 1}}

Dates_of(series) == [i \in DOMAIN series |-> series[i][1]]

Values_of(series) == [i \in DOMAIN series |-> series[i][2]]

IsAscending(s) == \A i \in 1..(Len(s) - 1) : s[i] <= s[i + 1]

IsStrictlyAscending(s) == \A i \in 1..(Len(s) - 1) : s[i] < s[i + 1]


(* ----------------------------------------------------------- the lookups *)

Ok(i) == [found |-> TRUE, idx |-> i]

Err(i) == [found |-> FALSE, idx |-> i]

\* slice::binary_search of the standard library, by its documented contract;
\* indices are 0-based as in Rust.  On a sorted slice: Ok of the index of a
\* match, any one of them when there are several, else Err of the insertion
\* point.  On an unsorted slice the result is unspecified: Ok only of an
\* element that compares equal, or Err of any index up to the length.
binary_search(s, x) ==
    LET matches == {i \in DOMAIN s : s[i] = x}
    IN  IF IsAscending(s)
        THEN IF matches # {}
             THEN {Ok(i - 1) : i \in matches}
             ELSE {Err(Cardinality({i \in DOMAIN s : s[i] < x}))}
        ELSE {Ok(i - 1) : i \in matches} \cup {Err(i) : i \in 0..Len(s)}

\* Mutant: the Err(index) arm reads the element at index, not at index - 1.
GetRateLookup_NoStepBack(map, from, to, date) ==
    IF <<from, to>> \notin DOMAIN map
    THEN {None}
    ELSE LET dates_rates == map[<<from, to>>]
             n == Len(dates_rates)
         IN  IF n = 0
             THEN {Raised}
             ELSE IF date < dates_rates[1][1]
             THEN {None}
             ELSE IF date = dates_rates[1][1]
             THEN {Some(dates_rates[1][2])}
             ELSE IF date >= dates_rates[n][1]
             THEN {Some(dates_rates[n][2])}
             ELSE {IF r.found
                   THEN Some(dates_rates[r.idx + 1][2])
                   ELSE IF r.idx > 0
                        THEN Some(dates_rates[r.idx + 1][2])
                        ELSE None
                   : r \in binary_search(Dates_of(dates_rates), date)}

\* Mutant: the first-date test is <= and answers None.
GetRateLookup_FirstExcluded(map, from, to, date) ==
    IF <<from, to>> \notin DOMAIN map
    THEN {None}
    ELSE LET dates_rates == map[<<from, to>>]
             n == Len(dates_rates)
         IN  IF n = 0
             THEN {Raised}
             ELSE IF date <= dates_rates[1][1]
             THEN {None}
             ELSE IF date >= dates_rates[n][1]
             THEN {Some(dates_rates[n][2])}
             ELSE {IF r.found
                   THEN Some(dates_rates[r.idx + 1][2])
                   ELSE IF r.idx > 0
                        THEN Some(dates_rates[r.idx][2])
                        ELSE None
                   : r \in binary_search(Dates_of(dates_rates), date)}

\* Mutant: a date on or after the last one gets the first rate.
GetRateLookup_LastGivesFirst(map, from, to, date) ==
    IF <<from, to>> \notin DOMAIN map
    THEN {None}
    ELSE LET dates_rates == map[<<from, to>>]
             n == Len(dates_rates)
         IN  IF n = 0
             THEN {Raised}
             ELSE IF date < dates_rates[1][1]
             THEN {None}
             ELSE IF date = dates_rates[1][1]
             THEN {Some(dates_rates[1][2])}
             ELSE IF date >= dates_rates[n][1]
             THEN {Some(dates_rates[1][2])}
             ELSE {IF r.found
                   THEN Some(dates_rates[r.idx + 1][2])
                   ELSE IF r.idx > 0
                        THEN Some(dates_rates[r.idx][2])
                        ELSE None
                   : r \in binary_search(Dates_of(dates_rates), date)}

\* kq_fx_get_rate after ensure_cache_populated (lines 408-441): the results
\* the read of the data map can produce.
GetRateLookup(map, from, to, date) ==
    IF <<from, to>> \notin DOMAIN map
    THEN {None}
    ELSE LET dates_rates == map[<<from, to>>]
             n == Len(dates_rates)
         IN  IF n = 0
             THEN {Raised}   \* dates_rates.first().unwrap()
             ELSE IF date < dates_rates[1][1]
             THEN {None}
             ELSE IF date = dates_rates[1][1]
             THEN {Some(dates_rates[1][2])}
             ELSE IF date >= dates_rates[n][1]
             THEN {Some(dates_rates[n][2])}
             ELSE {IF r.found
                   THEN Some(dates_rates[r.idx + 1][2])
                   ELSE IF r.idx > 0
                        THEN Some(dates_rates[r.idx][2])
                        ELSE None
                   : r \in binary_search(Dates_of(dates_rates), date)}

\* Mutant: a date before the first element gets the first value.
AsOfPosition_ClampFirst(dates, values, date, default_value) ==
    {IF r.found
     THEN (IF r.idx + 1 <= Len(values) THEN Some(values[r.idx + 1])
                                       ELSE default_value)
     ELSE IF r.idx = 0
          THEN Some(values[1])
          ELSE (IF r.idx <= Len(values) THEN Some(values[r.idx])
                                        ELSE default_value)
     : r \in binary_search(dates, date)}

\* Mutant: the Err(idx) arm keeps idx instead of idx - 1.
AsOfPosition_NoStepBack(dates, values, date, default_value) ==
    {IF r.found
     THEN (IF r.idx + 1 <= Len(values) THEN Some(values[r.idx + 1])
                                       ELSE default_value)
     ELSE IF r.idx = 0
          THEN default_value
          ELSE (IF r.idx + 1 <= Len(values) THEN Some(values[r.idx + 1])
                                            ELSE default_value)
     : r \in binary_search(dates, date)}

\* The tail shared by the three standalone lookups (lines 493-506, 534-551,
\* 576-598): binary search on the dates, then values.get(pos).
AsOfPosition(dates, values, date, default_value) ==
    {IF r.found
     THEN (IF r.idx + 1 <= Len(values) THEN Some(values[r.idx + 1])
                                       ELSE default_value)
     ELSE IF r.idx = 0
          THEN default_value
          ELSE (IF r.idx <= Len(values) THEN Some(values[r.idx])
                                        ELSE default_value)
     : r \in binary_search(dates, date)}

\* kq_get_value_from_arrays (lines 476-507).
kq_get_value_from_arrays(dates, values, date, default_value) ==
    IF dates = <<>> \/ values = <<>>
    THEN {default_value}
    ELSE IF Len(dates) # Len(values)
    THEN {Raised}
    ELSE AsOfPosition(dates, values, date, default_value)

\* kq_get_value_from_custom_type (lines 516-552) over DateValue structs,
\* here <<date, value>>.
kq_get_value_from_custom_type(date_values, date, default_value) ==
    IF date_values = <<>>
    THEN {default_value}
    ELSE AsOfPosition(Dates_of(date_values), Values_of(date_values), date,
                      default_value)

\* Mutant: the value is read from attribute 1 (the date) instead of 2.
kq_get_value_from_pairs_DateAsValue(pairs, date, default_value) ==
    IF pairs = <<>>
    THEN {default_value}
    ELSE AsOfPosition(Dates_of(pairs), Dates_of(pairs), date, default_value)

\* kq_get_value_from_pairs (lines 555-599) over kq_date_value composites with
\* both attributes present.
kq_get_value_from_pairs(pairs, date, default_value) ==
    IF pairs = <<>>
    THEN {default_value}
    ELSE AsOfPosition(Dates_of(pairs), Values_of(pairs), date, default_value)

(* --------------------------------------------------------- initial state *)

\* After _PG_init: pg_shmem_init! leaves the control struct at its Default
\* and both maps empty; no backend is in a call.
Init ==
    /\ cache_filled = FALSE
    /\ cache_being_filled = FALSE
    /\ xuid_map = EmptyMap
    /\ data_map = EmptyMap
    /\ xuid_w = NoProc
    /\ xuid_r = {}
    /\ data_w = NoProc
    /\ pc = [p \in Procs |-> "idle"]
    /\ op = [p \in Procs |-> NoCall]
    /\ result = [p \in Procs |-> NoResult]
    /\ calls = 0
    /\ q2_rows \in IdentityFeeds
    /\ q3_rows \in RateFeeds
    /\ q1_reads = 0
    /\ q2_reads = 0
    /\ q3_reads = 0
    /\ invalidations = 0

(* ------------------------------------------------------- shared fragments *)

\* Every lock guard of p is dropped: the function returns, or the ERROR
\* unwinds it (and the transaction abort releases every LWLock held).
ReleaseAll(p) ==
    /\ xuid_w' = IF xuid_w = p THEN NoProc ELSE xuid_w
    /\ xuid_r' = xuid_r \ {p}
    /\ data_w' = IF data_w = p THEN NoProc ELSE data_w

\* The exported function returns r (or raises, r = Raised) to its caller.
Return(p, r) ==
    /\ pc' = [pc EXCEPT ![p] = "idle"]
    /\ result' = [result EXCEPT ![p] = r]
    /\ ReleaseAll(p)

\* A backend starts a call.
StartCall(p, c, first) ==
    /\ pc[p] = "idle"
    /\ calls < MaxCalls
    /\ calls' = calls + 1
    /\ op' = [op EXCEPT ![p] = c]
    /\ result' = [result EXCEPT ![p] = NoResult]
    /\ pc' = [pc EXCEPT ![p] = first]

\* Where the caller of ensure_cache_populated goes on: kq_fx_populate_cache
\* returns (line 372), the lookups read their map (lines 386, 409, 459);
\* kq_fx_get_rate_xuid calls kq_fx_get_rate with the xuid map still locked
\* in shared mode (line 472).
AfterEnsure(p) ==
    CASE op[p].name = "get_rate" -> "gr_read"
      [] op[p].name = "display" -> "dc_read"
      [] op[p].name = "get_rate_xuid" ->
             IF p \in xuid_r THEN "gr_read" ELSE "gx_lock"
      [] OTHER -> "idle"

\* ensure_cache_populated returns: its own guards (xuid_map, data_map) are
\* dropped, the caller's are kept.
EnsureReturns(p) ==
    /\ xuid_w' = IF xuid_w = p THEN NoProc ELSE xuid_w
    /\ data_w' = IF data_w = p THEN NoProc ELSE data_w
    /\ UNCHANGED xuid_r
    /\ pc' = [pc EXCEPT ![p] = AfterEnsure(p)]
    /\ result' = [result EXCEPT ![p] =
                     IF op[p].name = "populate" THEN Done ELSE @]

(* --------------------------------------------------- is_cache_filled *)

\* Mutant: a filled cache is validated and loaded again.
IcfFilled_Revalidates(p) ==
    /\ pc[p] = "icf_filled"
    /\ pc' = [pc EXCEPT ![p] = IF cache_filled THEN "validate" ELSE "icf_being"]
    /\ UNCHANGED <<control, maps, locks, op, result, calls, tables, reads,
                   invalidations>>

\* Line 171: the first read of the control struct.
IcfFilled(p) ==
    /\ pc[p] = "icf_filled"
    /\ IF cache_filled
       THEN EnsureReturns(p)
       ELSE /\ pc' = [pc EXCEPT ![p] = "icf_being"]
            /\ UNCHANGED <<locks, result>>
    /\ UNCHANGED <<control, maps, op, calls, tables, reads, invalidations>>

\* Line 175: the second read.  When it is false is_cache_filled returns false
\* and ensure_cache_populated goes on: to the validation (line 191) on its
\* first call, to the claim (line 202) on the one made under the xuid lock.
IcfBeing(p) ==
    /\ pc[p] = "icf_being"
    /\ pc' = [pc EXCEPT ![p] =
                 IF cache_being_filled THEN "icf_wait"
                 ELSE IF xuid_w = p THEN "claim" ELSE "validate"]
    /\ UNCHANGED <<control, maps, locks, op, result, calls, tables, reads,
                   invalidations>>

\* Lines 176-179: the sleep loop ends once cache_being_filled reads false, and
\* is_cache_filled returns true.
IcfWait(p) ==
    /\ pc[p] = "icf_wait"
    /\ ~cache_being_filled
    /\ EnsureReturns(p)
    /\ UNCHANGED <<control, maps, op, calls, tables, reads, invalidations>>

(* ------------------------------------------------ ensure_cache_populated *)

\* Lines 191-193: validate_compatible_db; a negative, absent or failed answer
\* raises.
Validate(p) ==
    /\ pc[p] = "validate"
    /\ q1_reads' = q1_reads + 1
    /\ \E compatible \in BOOLEAN :
          IF compatible
          THEN /\ pc' = [pc EXCEPT ![p] = "lock_xuid"]
               /\ UNCHANGED <<locks, result>>
          ELSE Return(p, Raised)
    /\ UNCHANGED <<control, maps, op, calls, tables, q2_reads, q3_reads,
                   invalidations>>

\* Mutant: no second is_cache_filled under the xuid lock.
LockXuid_NoRecheck(p) ==
    /\ pc[p] = "lock_xuid"
    /\ xuid_w = NoProc
    /\ xuid_r = {}
    /\ xuid_w' = p
    /\ pc' = [pc EXCEPT ![p] = "claim"]
    /\ UNCHANGED <<control, maps, xuid_r, data_w, op, result, calls, tables,
                   reads, invalidations>>

\* Line 195: CURRENCY_XUID_MAP.exclusive(); then is_cache_filled again.
LockXuid(p) ==
    /\ pc[p] = "lock_xuid"
    /\ xuid_w = NoProc
    /\ xuid_r = {}
    /\ xuid_w' = p
    /\ pc' = [pc EXCEPT ![p] = "icf_filled"]
    /\ UNCHANGED <<control, maps, xuid_r, data_w, op, result, calls,
                   tables, reads, invalidations>>

\* Line 202.
Claim(p) ==
    /\ pc[p] = "claim"
    /\ cache_being_filled' = TRUE
    /\ pc' = [pc EXCEPT ![p] = "lock_data"]
    /\ UNCHANGED <<cache_filled, maps, locks, op, result, calls, tables, reads,
                   invalidations>>

\* Line 205: CURRENCY_DATA_MAP.exclusive().
LockData(p) ==
    /\ pc[p] = "lock_data"
    /\ data_w = NoProc
    /\ data_w' = p
    /\ pc' = [pc EXCEPT ![p] = "q2"]
    /\ UNCHANGED <<control, maps, xuid_w, xuid_r, op, result, calls,
                   tables, reads, invalidations>>

\* Lines 207-235: the identity query and its loop.  The select can fail, a
\* row can have a NULL column (n rows were inserted before it), an insert can
\* find the map full; each raises out of ensure_cache_populated.
IdentityPhase(p) ==
    /\ pc[p] = "q2"
    /\ q2_reads' = q2_reads + 1
    /\ \E n \in 0..Len(q2_rows) :
          LET r == LoadXuids(xuid_map, q2_rows, n)
          IN  /\ xuid_map' = r.map
              /\ IF n = Len(q2_rows) /\ r.ok
                 THEN /\ pc' = [pc EXCEPT ![p] = "q3"]
                      /\ UNCHANGED <<locks, result>>
                 ELSE Return(p, Raised)
    /\ UNCHANGED <<control, data_map, op, calls, tables, q1_reads, q3_reads,
                   invalidations>>

\* Lines 237-296: the rate query and its loop, with the same failures.
RatePhase(p) ==
    /\ pc[p] = "q3"
    /\ q3_reads' = q3_reads + 1
    /\ \E n \in 0..Len(q3_rows) :
          LET r == LoadRates(data_map, q3_rows, n)
          IN  /\ data_map' = r.map
              /\ IF n = Len(q3_rows) /\ r.ok
                 THEN /\ pc' = [pc EXCEPT ![p] = "fill"]
                      /\ UNCHANGED <<locks, result>>
                 ELSE Return(p, Raised)
    /\ UNCHANGED <<control, xuid_map, op, calls, tables, q1_reads, q2_reads,
                   invalidations>>

\* Mutant: cache_filled is set and cache_being_filled is left set.
Fill_KeepsClaim(p) ==
    /\ pc[p] = "fill"
    /\ cache_filled' = TRUE
    /\ pc' = [pc EXCEPT ![p] = "ret"]
    /\ UNCHANGED <<cache_being_filled, maps, locks, op, result, calls, tables,
                   reads, invalidations>>

\* Lines 298-303.
Fill(p) ==
    /\ pc[p] = "fill"
    /\ cache_filled' = TRUE
    /\ cache_being_filled' = FALSE
    /\ pc' = [pc EXCEPT ![p] = "ret"]
    /\ UNCHANGED <<maps, locks, op, result, calls, tables, reads,
                   invalidations>>

\* Mutant: the guards of ensure_cache_populated outlive its return.
PopulateReturn_KeepsLocks(p) ==
    /\ pc[p] = "ret"
    /\ pc' = [pc EXCEPT ![p] = AfterEnsure(p)]
    /\ result' = [result EXCEPT ![p] =
                     IF op[p].name = "populate" THEN Done ELSE @]
    /\ UNCHANGED <<control, maps, locks, op, calls, tables, reads,
                   invalidations>>

\* Line 306: the end of ensure_cache_populated drops data_map and xuid_map.
PopulateReturn(p) ==
    /\ pc[p] = "ret"
    /\ EnsureReturns(p)
    /\ UNCHANGED <<control, maps, op, calls, tables, reads, invalidations>>

(* ---------------------------------------------------- exported functions *)

\* kq_fx_populate_cache (lines 369-373).
kq_fx_populate_cache(p) ==
    /\ StartCall(p, Call("populate", 0, 0, "", "", 0, <<>>, <<>>, None),
                 "icf_filled")
    /\ UNCHANGED <<control, maps, locks, tables, reads, invalidations>>

\* Mutant: no test for equal ids.
kq_fx_get_rate_NoShortCircuit(p, currency_id, to_currency_id, date) ==
    /\ StartCall(p, Call("get_rate", currency_id, to_currency_id, "", "", date,
                         <<>>, <<>>, None),
                 "icf_filled")
    /\ UNCHANGED <<control, maps, locks, tables, reads, invalidations>>

\* kq_fx_get_rate, lines 401-406: equal ids return Some(1.0) at once, any
\* other pair goes through ensure_cache_populated.
kq_fx_get_rate(p, currency_id, to_currency_id, date) ==
    /\ StartCall(p, Call("get_rate", currency_id, to_currency_id, "", "", date,
                         <<>>, <<>>, None),
                 IF currency_id = to_currency_id THEN "gr_same"
                                                ELSE "icf_filled")
    /\ UNCHANGED <<control, maps, locks, tables, reads, invalidations>>

\* Line 403: return Some(1.0).
GetRateSame(p) ==
    /\ pc[p] = "gr_same"
    /\ Return(p, Some(1))
    /\ UNCHANGED <<control, maps, op, calls, tables, reads, invalidations>>

\* Lines 409-441: under CURRENCY_DATA_MAP.share(), which needs no exclusive
\* holder, the lookup in the pair's series; then the return.
GetRateRead(p) ==
    /\ pc[p] = "gr_read"
    /\ data_w = NoProc
    /\ \E r \in GetRateLookup(data_map, op[p].from, op[p].to, op[p].date) :
          Return(p, r)
    /\ UNCHANGED <<control, maps, op, calls, tables, reads, invalidations>>

\* kq_fx_get_rate_xuid, lines 445-457: equal xuids return Some(1.0) at once.
kq_fx_get_rate_xuid(p, currency_xuid, to_currency_xuid, date) ==
    /\ StartCall(p, Call("get_rate_xuid", 0, 0, currency_xuid, to_currency_xuid,
                         date, <<>>, <<>>, None),
                 IF currency_xuid = to_currency_xuid THEN "gr_same"
                                                    ELSE "icf_filled")
    /\ UNCHANGED <<control, maps, locks, tables, reads, invalidations>>

\* Line 459: CURRENCY_XUID_MAP.share().
XuidLock(p) ==
    /\ pc[p] = "gx_lock"
    /\ xuid_w = NoProc
    /\ xuid_r' = xuid_r \cup {p}
    /\ pc' = [pc EXCEPT ![p] = "gx_read"]
    /\ UNCHANGED <<control, maps, xuid_w, data_w, op, result, calls,
                   tables, reads, invalidations>>

\* Mutant: a missing to xuid answers None instead of raising.
XuidRead_ToUnchecked(p) ==
    /\ pc[p] = "gx_read"
    /\ IF op[p].xfrom \in DOMAIN xuid_map /\ op[p].xto \in DOMAIN xuid_map
       THEN /\ op' = [op EXCEPT ![p].from = xuid_map[op[p].xfrom],
                                ![p].to = xuid_map[op[p].xto]]
            /\ pc' = [pc EXCEPT ![p] =
                         IF xuid_map[op[p].xfrom] = xuid_map[op[p].xto]
                         THEN "gr_same" ELSE "icf_filled"]
            /\ UNCHANGED <<locks, result>>
       ELSE /\ Return(p, IF op[p].xfrom \in DOMAIN xuid_map THEN None
                                                            ELSE Raised)
            /\ UNCHANGED op
    /\ UNCHANGED <<control, maps, calls, tables, reads, invalidations>>

\* Lines 460-472: both xuids are resolved, a missing one raises; then
\* kq_fx_get_rate(*from_id, *to_id, date) is called with the guard alive.
XuidRead(p) ==
    /\ pc[p] = "gx_read"
    /\ IF op[p].xfrom \in DOMAIN xuid_map /\ op[p].xto \in DOMAIN xuid_map
       THEN /\ op' = [op EXCEPT ![p].from = xuid_map[op[p].xfrom],
                                ![p].to = xuid_map[op[p].xto]]
            /\ pc' = [pc EXCEPT ![p] =
                         IF xuid_map[op[p].xfrom] = xuid_map[op[p].xto]
                         THEN "gr_same" ELSE "icf_filled"]
            /\ UNCHANGED <<locks, result>>
       ELSE /\ Return(p, Raised)
            /\ UNCHANGED op
    /\ UNCHANGED <<control, maps, calls, tables, reads, invalidations>>

\* kq_fx_display_cache (lines 375-397).
kq_fx_display_cache(p) ==
    /\ StartCall(p, Call("display", 0, 0, "", "", 0, <<>>, <<>>, None),
                 "icf_filled")
    /\ UNCHANGED <<control, maps, locks, tables, reads, invalidations>>

\* The table a call returns: its rows, without their order.
Rows(rows) == [tag |-> "rows", val |-> rows]

\* Lines 386-395: the flat_map over the data map, one
\* (from_id, to_id, date, rate) row for each element of each series.
DisplayRows(map) ==
    UNION {{<<k[1], k[2], map[k][i][1], map[k][i][2]>> : i \in DOMAIN map[k]} :
              k \in DOMAIN map}

\* Mutant: only the first element of each series is returned.
DisplayRead_FirstOnly(p) ==
    /\ pc[p] = "dc_read"
    /\ data_w = NoProc
    /\ Return(p, Rows({<<k[1], k[2], data_map[k][1][1], data_map[k][1][2]>> :
                           k \in {j \in DOMAIN data_map : data_map[j] # <<>>}}))
    /\ UNCHANGED <<control, maps, op, calls, tables, reads, invalidations>>

\* Lines 386-396: under CURRENCY_DATA_MAP.share() the rows are collected;
\* then the return.
DisplayRead(p) ==
    /\ pc[p] = "dc_read"
    /\ data_w = NoProc
    /\ Return(p, Rows(DisplayRows(data_map)))
    /\ UNCHANGED <<control, maps, op, calls, tables, reads, invalidations>>

\* kq_fx_invalidate_cache (lines 350-367).
kq_fx_invalidate_cache(p) ==
    /\ StartCall(p, Call("invalidate", 0, 0, "", "", 0, <<>>, <<>>, None),
                 "iv_lock_xuid")
    /\ invalidations' = invalidations + 1
    /\ UNCHANGED <<control, maps, locks, tables, reads>>

\* Mutant: the invalidation goes on without the xuid map lock.
InvalidateLockXuid_NoLock(p) ==
    /\ pc[p] = "iv_lock_xuid"
    /\ pc' = [pc EXCEPT ![p] = "iv_clear_vecs"]
    /\ UNCHANGED <<control, maps, locks, op, result, calls, tables, reads,
                   invalidations>>

\* Line 352: CURRENCY_XUID_MAP.exclusive(), held to the end of the function.
InvalidateLockXuid(p) ==
    /\ pc[p] = "iv_lock_xuid"
    /\ xuid_w = NoProc
    /\ xuid_r = {}
    /\ xuid_w' = p
    /\ pc' = [pc EXCEPT ![p] = "iv_clear_vecs"]
    /\ UNCHANGED <<control, maps, xuid_r, data_w, op, result, calls, tables,
                   reads, invalidations>>

\* Lines 354-356: under a temporary CURRENCY_DATA_MAP.exclusive() every
\* series is emptied.
InvalidateClearVecs(p) ==
    /\ pc[p] = "iv_clear_vecs"
    /\ data_w = NoProc
    /\ data_map' = [k \in DOMAIN data_map |-> <<>>]
    /\ pc' = [pc EXCEPT ![p] = "iv_clear_map"]
    /\ UNCHANGED <<control, xuid_map, locks, op, result, calls, tables, reads,
                   invalidations>>

\* Line 358: under a second temporary CURRENCY_DATA_MAP.exclusive() the map
\* is cleared.
InvalidateClearMap(p) ==
    /\ pc[p] = "iv_clear_map"
    /\ data_w = NoProc
    /\ data_map' = EmptyMap
    /\ pc' = [pc EXCEPT ![p] = "iv_control"]
    /\ UNCHANGED <<control, xuid_map, locks, op, result, calls, tables, reads,
                   invalidations>>

\* Mutant: the reset leaves cache_being_filled as it was.
InvalidateControl_KeepsClaim(p) ==
    /\ pc[p] = "iv_control"
    /\ cache_filled' = FALSE
    /\ pc' = [pc EXCEPT ![p] = "iv_clear_xuid"]
    /\ UNCHANGED <<cache_being_filled, maps, locks, op, result, calls, tables,
                   reads, invalidations>>

\* Lines 360-363: the control struct is reset.
InvalidateControl(p) ==
    /\ pc[p] = "iv_control"
    /\ cache_filled' = FALSE
    /\ cache_being_filled' = FALSE
    /\ pc' = [pc EXCEPT ![p] = "iv_clear_xuid"]
    /\ UNCHANGED <<maps, locks, op, result, calls, tables, reads,
                   invalidations>>

\* Lines 365-367: the xuid map is cleared and the function returns.
InvalidateClearXuid(p) ==
    /\ pc[p] = "iv_clear_xuid"
    /\ xuid_map' = EmptyMap
    /\ Return(p, Done)
    /\ UNCHANGED <<control, data_map, op, calls, tables, reads, invalidations>>

(* ------------------------------------------------- concurrent behaviours *)

\* What the backends of the concurrent specification ask for; id 3 and xuid
\* "eur" are in no feed.
SpecIdPairs == {<<1, 2>>, <<1, 1>>, <<3, 3>>}

SpecXuidPairs == {<<"usd", "cad">>, <<"eur", "eur">>}

SpecDates == {2}

Step(p) ==
    \/ IcfFilled(p)
    \/ IcfBeing(p)
    \/ IcfWait(p)
    \/ Validate(p)
    \/ LockXuid(p)
    \/ Claim(p)
    \/ LockData(p)
    \/ IdentityPhase(p)
    \/ RatePhase(p)
    \/ Fill(p)
    \/ PopulateReturn(p)
    \/ GetRateSame(p)
    \/ GetRateRead(p)
    \/ XuidLock(p)
    \/ XuidRead(p)
    \/ DisplayRead(p)
    \/ InvalidateLockXuid(p)
    \/ InvalidateClearVecs(p)
    \/ InvalidateClearMap(p)
    \/ InvalidateControl(p)
    \/ InvalidateClearXuid(p)

Next ==
    \E p \in Procs :
        \/ kq_fx_populate_cache(p)
        \/ \E ids \in SpecIdPairs, date \in SpecDates :
              kq_fx_get_rate(p, ids[1], ids[2], date)
        \/ \E xuids \in SpecXuidPairs, date \in SpecDates :
              kq_fx_get_rate_xuid(p, xuids[1], xuids[2], date)
        \/ kq_fx_display_cache(p)
        \/ kq_fx_invalidate_cache(p)
        \/ Step(p)

Spec == Init /\ [][Next]_vars

(* ------------------------------------------------ the standalone lookups *)

\* A standalone lookup touches no shared state: the call is one step.
Standalone(p, c, outcomes) ==
    /\ pc[p] = "idle"
    /\ calls < MaxCalls
    /\ calls' = calls + 1
    /\ op' = [op EXCEPT ![p] = c]
    /\ \E r \in outcomes : result' = [result EXCEPT ![p] = r]
    /\ UNCHANGED <<control, maps, locks, pc, tables, reads, invalidations>>

CallFromArrays(p, dates, values, date, default_value) ==
    Standalone(p,
               Call("from_arrays", 0, 0, "", "", date, dates, values,
                    default_value),
               kq_get_value_from_arrays(dates, values, date, default_value))

CallFromCustomType(p, date_values, date, default_value) ==
    Standalone(p,
               Call("from_custom_type", 0, 0, "", "", date,
                    Dates_of(date_values), Values_of(date_values),
                    default_value),
               kq_get_value_from_custom_type(date_values, date, default_value))

CallFromPairs(p, pairs, date, default_value) ==
    Standalone(p,
               Call("from_pairs", 0, 0, "", "", date, Dates_of(pairs),
                    Values_of(pairs), default_value),
               kq_get_value_from_pairs(pairs, date, default_value))

(* ----------------------------------------------- lookups on a filled cache *)

\* Date-ascending (non-decreasing) date sequences of up to MaxLen dates.
AscendingDates ==
    {d \in UNION {[1..n -> Dates] : n \in 0..MaxLen} : IsAscending(d)}

\* Feeds holding one series, for the pair (1, 2), in date order.
LookupFeeds ==
    {Stamp([i \in DOMAIN d |-> <<1, 2, d[i]>>]) : d \in AscendingDates}

Defaults == {None, Some(0)}

\* The series the cache holds for a pair, <<>> when it holds none.
StoredSeries(from, to) ==
    IF <<from, to>> \in DOMAIN data_map THEN data_map[<<from, to>>] ELSE <<>>

\* The state after backend 1 has populated the cache from a date-ordered
\* feed: the starting point of the lookups.
LookupInit ==
    /\ q2_rows \in IdentityFeeds
    /\ q3_rows \in LookupFeeds
    /\ LoadXuids(EmptyMap, q2_rows, Len(q2_rows)).ok
    /\ LoadRates(EmptyMap, q3_rows, Len(q3_rows)).ok
    /\ xuid_map = LoadXuids(EmptyMap, q2_rows, Len(q2_rows)).map
    /\ data_map = LoadRates(EmptyMap, q3_rows, Len(q3_rows)).map
    /\ cache_filled = TRUE
    /\ cache_being_filled = FALSE
    /\ xuid_w = NoProc
    /\ xuid_r = {}
    /\ data_w = NoProc
    /\ pc = [p \in Procs |-> "idle"]
    /\ op = [p \in Procs |->
               IF p = 1
               THEN Call("populate", 0, 0, "", "", 0, <<>>, <<>>, None)
               ELSE NoCall]
    /\ result = [p \in Procs |-> IF p = 1 THEN Done ELSE NoResult]
    /\ calls = 1
    /\ q1_reads = 1
    /\ q2_reads = 1
    /\ q3_reads = 1
    /\ invalidations = 0

\* The lookups are made on the stored series of (1, 2), and on the pair
\* (2, 1), which has no series.
LookupNext ==
    \E p \in Procs :
        \/ \E ids \in IdPairs, date \in QueryDates :
              kq_fx_get_rate(p, ids[1], ids[2], date)
        \/ IcfFilled(p)
        \/ GetRateRead(p)
        \/ \E date \in QueryDates, default_value \in Defaults :
              \/ CallFromArrays(p, Dates_of(StoredSeries(1, 2)),
                                Values_of(StoredSeries(1, 2)), date,
                                default_value)
              \/ CallFromCustomType(p, StoredSeries(1, 2), date, default_value)
              \/ CallFromPairs(p, StoredSeries(1, 2), date, default_value)

LookupSpec == LookupInit /\ [][LookupNext]_vars

(* ------------------------------------------------- claims on the lookups *)

LookupNames == {"get_rate", "from_arrays", "from_custom_type", "from_pairs"}

StandaloneNames == {"from_arrays", "from_custom_type", "from_pairs"}

\* Backend p has made a lookup and has its answer.
IsLookup(p) ==
    /\ pc[p] = "idle"
    /\ op[p].name \in LookupNames
    /\ result[p] # NoResult

\* The <<date, value>> sequence p's lookup was made in (the cache is not
\* written under LookupSpec, so the stored series is the one that was read).
LookedIn(p) ==
    IF op[p].name = "get_rate"
    THEN StoredSeries(op[p].from, op[p].to)
    ELSE [i \in DOMAIN op[p].dates |-> <<op[p].dates[i], op[p].values[i]>>]

\* The default p's lookup falls back to: kq_fx_get_rate has None.
DefaultOf(p) == IF op[p].name = "get_rate" THEN None ELSE op[p].default

\* Index of the last element of S dated on or before D.
LastNotAfter(S, D) ==
    CHOOSE i \in DOMAIN S :
        /\ S[i][1] <= D
        /\ \A j \in DOMAIN S : S[j][1] <= D => j <= i

\* Values of the elements of S dated D.
ValuesAt(S, D) == {Some(S[i][2]) : i \in {j \in DOMAIN S : S[j][1] = D}}

\* C5: a query date on or after the first date that matches no date of the
\* ascending sequence gets the value of the latest element not later than it.
C5_AsOfNoMatch ==
    \A p \in Procs :
        IsLookup(p) =>
            LET S == LookedIn(p)
                D == op[p].date
            IN  (S # <<>> /\ S[1][1] <= D /\ ValuesAt(S, D) = {})
                    => result[p] = Some(S[LastNotAfter(S, D)][2])

\* C5 witness: kq_fx_get_rate and a standalone lookup have both answered a
\* query that falls in a gap inside the sequence.
C5_Witness ==
    \E p, q \in Procs :
        /\ IsLookup(p) /\ IsLookup(q)
        /\ op[p].name = "get_rate" /\ op[q].name \in StandaloneNames
        /\ \A x \in {p, q} :
              LET S == LookedIn(x)
                  D == op[x].date
              IN  /\ Len(S) >= 2
                  /\ S[1][1] < D /\ D < S[Len(S)][1]
                  /\ ValuesAt(S, D) = {}

\* C6: an empty sequence, or a query date before the first date, gets the
\* caller's default (None for kq_fx_get_rate).
C6_DefaultBeforeRange ==
    \A p \in Procs :
        IsLookup(p) =>
            LET S == LookedIn(p)
                D == op[p].date
            IN  (S = <<>> \/ D < S[1][1]) => result[p] = DefaultOf(p)

\* C6 witness: kq_fx_get_rate has answered for a pair with no series, and a
\* standalone lookup with default Some(0) a query before the first date.
C6_Witness ==
    \E p, q \in Procs :
        /\ IsLookup(p) /\ IsLookup(q)
        /\ op[p].name = "get_rate" /\ LookedIn(p) = <<>>
        /\ op[q].name \in StandaloneNames
        /\ LookedIn(q) # <<>> /\ op[q].date < LookedIn(q)[1][1]
        /\ op[q].default = Some(0) /\ result[q] = Some(0)

\* C7 as claimed: a query date on or after the last date of a non-empty
\* ascending sequence gets the value of the last element.
C7_ForwardFillLast ==
    \A p \in Procs :
        IsLookup(p) =>
            LET S == LookedIn(p)
                D == op[p].date
            IN  (S # <<>> /\ D >= S[Len(S)][1])
                    => result[p] = Some(S[Len(S)][2])

\* C7 amended: such a query gets the value of an element carrying the last
\* date, and that of the last element itself when the query is after the last
\* date or no two elements share a date.
C7_ForwardFill ==
    \A p \in Procs :
        IsLookup(p) =>
            LET S == LookedIn(p)
                D == op[p].date
                last == S[Len(S)][1]
            IN  (S # <<>> /\ D >= last)
                    => /\ result[p] \in ValuesAt(S, last)
                       /\ (D > last \/ IsStrictlyAscending(Dates_of(S)))
                              => result[p] = Some(S[Len(S)][2])

\* C7 witness: both kinds of lookup have answered a query after the last
\* date, and one on a last date that two elements share.
C7_Witness ==
    \E p, q \in Procs :
        /\ IsLookup(p) /\ IsLookup(q)
        /\ op[p].name = "get_rate" /\ op[q].name \in StandaloneNames
        /\ Len(LookedIn(p)) >= 2
        /\ op[p].date > LookedIn(p)[Len(LookedIn(p))][1]
        /\ op[q].date = LookedIn(q)[Len(LookedIn(q))][1]
        /\ Cardinality(ValuesAt(LookedIn(q), op[q].date)) >= 2

\* C8 as claimed: queried at the date of any element (duplicate dates
\* included), the lookup returns that element's value.
C8_ExactMatchEveryIndex ==
    \A p \in Procs :
        IsLookup(p) =>
            LET S == LookedIn(p)
            IN  \A i \in DOMAIN S :
                    op[p].date = S[i][1] => result[p] = Some(S[i][2])

\* C8 amended: queried at the date of an element, the lookup returns the
\* value of an element with that date; the element's own value when no other
\* element shares its date.
C8_ExactMatch ==
    \A p \in Procs :
        IsLookup(p) =>
            LET S == LookedIn(p)
                D == op[p].date
            IN  \A i \in DOMAIN S :
                    D = S[i][1]
                        => /\ result[p] \in ValuesAt(S, D)
                           /\ Cardinality(ValuesAt(S, D)) = 1
                                  => result[p] = Some(S[i][2])

\* C8 witness: both kinds of lookup have answered a query at the date of the
\* first element, and kq_fx_get_rate one at the date of an inner element.
C8_Witness ==
    \E p, q \in Procs :
        /\ IsLookup(p) /\ IsLookup(q)
        /\ op[p].name = "get_rate" /\ op[q].name \in StandaloneNames
        /\ Len(LookedIn(p)) = 3
        /\ IsStrictlyAscending(Dates_of(LookedIn(p)))
        /\ op[p].date = LookedIn(p)[2][1]
        /\ result[p] = Some(LookedIn(p)[2][2])
        /\ op[q].date = LookedIn(q)[1][1]
        /\ result[q] = Some(LookedIn(q)[1][2])

\* p answered through kq_fx_get_rate and q through a standalone lookup with
\* default None, on the same sequence and date.
SameQuery(p, q) ==
    /\ IsLookup(p) /\ IsLookup(q)
    /\ op[p].name = "get_rate" /\ op[q].name \in StandaloneNames
    /\ op[q].default = None
    /\ op[p].date = op[q].date
    /\ LookedIn(p) = LookedIn(q)

\* C10 as claimed: on every ascending sequence, duplicate dates allowed,
\* kq_fx_get_rate and the standalone lookups with default None agree.
C10_EntryPointsAgreeWithDuplicates ==
    \A p, q \in Procs : SameQuery(p, q) => result[p] = result[q]

\* C10 amended: they agree on every sequence without duplicate dates.
C10_EntryPointsAgree ==
    \A p, q \in Procs :
        (SameQuery(p, q) /\ IsStrictlyAscending(Dates_of(LookedIn(p))))
            => result[p] = result[q]

\* C10 witness: the two entry points have answered the same query inside a
\* sequence of three distinct dates.
C10_Witness ==
    \E p, q \in Procs :
        /\ SameQuery(p, q)
        /\ Len(LookedIn(p)) = 3
        /\ IsStrictlyAscending(Dates_of(LookedIn(p)))
        /\ op[p].date = LookedIn(p)[2][1]
        /\ result[p] = Some(LookedIn(p)[2][2])

(* ---------------------------------------- claims on the population protocol *)

\* p's call goes through ensure_cache_populated (it is not an identity
\* short-circuit, an invalidation or a standalone lookup).
UsesCache(p) ==
    \/ op[p].name \in {"populate", "display"}
    \/ op[p].name = "get_rate" /\ op[p].from # op[p].to
    \/ op[p].name = "get_rate_xuid" /\ op[p].xfrom # op[p].xto

\* ensure_cache_populated has returned to p's call (for kq_fx_get_rate_xuid:
\* the one of line 457).
PastEnsure(p) ==
    /\ UsesCache(p)
    /\ \/ pc[p] \in {"gr_read", "dc_read", "gx_lock", "gx_read"}
       \/ p \in xuid_r
       \/ pc[p] = "idle" /\ result[p].tag \in {"ok", "some", "none", "rows"}

\* C1: as long as no invalidation has been called, the identity query and
\* the rate query have each run at most once, and exactly once when an
\* ensure_cache_populated call has returned.
C1_SingleFlight ==
    invalidations = 0 =>
        /\ q2_reads <= 1
        /\ q3_reads <= 1
        /\ \A p \in Procs : PastEnsure(p) => (q2_reads = 1 /\ q3_reads = 1)

\* C1 witness: two backends both found the cache empty (both ran the
\* validation), one population ran, and both calls are past
\* ensure_cache_populated.
C1_Witness ==
    /\ invalidations = 0
    /\ q1_reads = 2
    /\ q2_reads = 1
    /\ \E p, q \in Procs : p # q /\ PastEnsure(p) /\ PastEnsure(q)

\* C2: the step that ends a failed population attempt (the identity or the
\* rate phase raising) leaves cache_being_filled false.
C2_FailureReleasesClaim ==
    [][\A p \in Procs :
          (pc[p] \in {"q2", "q3"} /\ pc'[p] = "idle")
              => ~cache_being_filled']_vars

\* The map a failed load left behind: some rows of the feed, not all.
DataPartial ==
    /\ data_map # LoadRates(EmptyMap, q3_rows, Len(q3_rows)).map
    /\ \E n \in 1..(Len(q3_rows) - 1) :
          data_map = LoadRates(EmptyMap, q3_rows, n).map

XuidPartial ==
    /\ xuid_map # LoadXuids(EmptyMap, q2_rows, Len(q2_rows)).map
    /\ \E n \in 1..(Len(q2_rows) - 1) :
          xuid_map = LoadXuids(EmptyMap, q2_rows, n).map

\* C3: a lookup that is past ensure_cache_populated and can take its shared
\* lock never finds a partly loaded map.
C3_NoPartialRead ==
    \A p \in Procs :
        /\ (pc[p] \in {"gr_read", "dc_read"} /\ data_w = NoProc) => ~DataPartial
        /\ pc[p] = "gx_read" => ~XuidPartial

\* C4: whenever cache_filled is true every stored series is in
\* non-decreasing date order.
C4_FilledIsSorted ==
    cache_filled =>
        \A k \in DOMAIN data_map : IsAscending(Dates_of(data_map[k]))

\* p's call is an identity short-circuit: kq_fx_get_rate with equal ids or
\* kq_fx_get_rate_xuid with equal xuids.
SameCurrency(c) ==
    \/ c.name = "get_rate" /\ c.from = c.to
    \/ c.name = "get_rate_xuid" /\ c.xfrom = c.xto

\* C9: every step of a call with equal ids (or equal xuids) leaves the
\* control flags, both maps, the locks and the query counters unchanged, the
\* call never enters ensure_cache_populated, and it returns Some(1.0).
C9_IdentityShortCircuit ==
    [][\A p \in Procs :
          (SameCurrency(op'[p]) /\ <<pc[p], op[p], result[p]>> #
                                   <<pc'[p], op'[p], result'[p]>>)
              => /\ UNCHANGED <<control, maps, locks, reads>>
                 /\ pc'[p] \in {"gr_same", "idle"}
                 /\ pc'[p] = "idle" => result'[p] = Some(1)]_vars

\* C9 witness: a call with the id 3, which no feed holds, has returned
\* Some(1.0) while another backend is populating.
C9_Witness ==
    \E p \in Procs :
        /\ SameCurrency(op[p])
        /\ op[p].from = 3
        /\ pc[p] = "idle"
        /\ result[p] = Some(1)
        /\ cache_being_filled
        /\ data_w # NoProc

(* ------------------------------------- kq_get_value_from_arrays on its own *)

\* Values arrays of every length up to MaxLen; the i-th value is 10 * i.
ValueArrays == {[i \in 1..n |-> 10 * i] : n \in 0..MaxLen}

\* No cache call is made: the cache stays as _PG_init left it.
ArraysInit ==
    /\ Init
    /\ q3_rows = Stamp(<< <<1, 2, 1>> >>)

\* The function touches no shared state, so one backend calls it, with
\* arrays of equal and of different lengths.
ArraysNext ==
    \E dates \in AscendingDates, values \in ValueArrays,
       date \in QueryDates, default_value \in Defaults :
        CallFromArrays(1, dates, values, date, default_value)

ArraysSpec == ArraysInit /\ [][ArraysNext]_vars

\* C11: a kq_get_value_from_arrays call whose dates and values differ in
\* length (one of them empty included) raises and returns no value.
C11_LengthMismatchRaises ==
    \A p \in Procs :
        (/\ op[p].name = "from_arrays"
         /\ result[p] # NoResult
         /\ Len(op[p].dates) # Len(op[p].values))
            => result[p] = Raised

(* ------------------------------------- xuid resolution on a filled cache *)

\* Identity feeds whose xuids are stored in lower and in upper case.
XuidFeeds ==
    IdentityFeeds \cup
        { << [id |-> 1, xuid |-> "USD"], [id |-> 2, xuid |-> "cad"] >> }

\* The state after backend 1 has populated the cache: the xuid map holds the
\* identity feed as the loop of lines 211-229 stored it, the data map one
\* series for the pair (1, 2).
XuidInit ==
    /\ q2_rows \in XuidFeeds
    /\ q3_rows = Stamp(<< <<1, 2, 1>>, <<1, 2, 2>> >>)
    /\ xuid_map = LoadXuids(EmptyMap, q2_rows, Len(q2_rows)).map
    /\ data_map = LoadRates(EmptyMap, q3_rows, Len(q3_rows)).map
    /\ cache_filled = TRUE
    /\ cache_being_filled = FALSE
    /\ xuid_w = NoProc
    /\ xuid_r = {}
    /\ data_w = NoProc
    /\ pc = [p \in Procs |-> "idle"]
    /\ op = [p \in Procs |->
               IF p = 1
               THEN Call("populate", 0, 0, "", "", 0, <<>>, <<>>, None)
               ELSE NoCall]
    /\ result = [p \in Procs |-> IF p = 1 THEN Done ELSE NoResult]
    /\ calls = 1
    /\ q1_reads = 1
    /\ q2_reads = 1
    /\ q3_reads = 1
    /\ invalidations = 0

\* kq_fx_get_rate_xuid with every pair of xuids, stored or not.
XuidNext ==
    \E p \in Procs :
        \/ \E currency_xuid \in Xuids, to_currency_xuid \in Xuids,
              date \in SpecDates :
              kq_fx_get_rate_xuid(p, currency_xuid, to_currency_xuid, date)
        \/ IcfFilled(p)
        \/ XuidLock(p)
        \/ XuidRead(p)
        \/ GetRateSame(p)
        \/ GetRateRead(p)

XuidSpec == XuidInit /\ [][XuidNext]_vars

\* Backend p has made a kq_fx_get_rate_xuid call and has its answer.
IsXuidLookup(p) ==
    /\ pc[p] = "idle"
    /\ op[p].name = "get_rate_xuid"
    /\ result[p] # NoResult

\* One of the xuids of p's call is not in the xuid map.
Unresolved(p) ==
    \/ op[p].xfrom \notin DOMAIN xuid_map
    \/ op[p].xto \notin DOMAIN xuid_map

\* C12 as claimed: a kq_fx_get_rate_xuid call with an xuid that is not in the
\* populated xuid map raises, two equal xuids included.
C12_UnknownXuidAlwaysRaises ==
    \A p \in Procs : (IsXuidLookup(p) /\ Unresolved(p)) => result[p] = Raised

\* C12 amended: a kq_fx_get_rate_xuid call with two different xuids, one of
\* them not in the populated xuid map, raises; a call with two equal xuids
\* returns Some(1.0) whether or not the xuid is in the map.
C12_UnknownXuidRaises ==
    \A p \in Procs :
        IsXuidLookup(p) =>
            /\ (Unresolved(p) /\ op[p].xfrom # op[p].xto)
                   => result[p] = Raised
            /\ op[p].xfrom = op[p].xto => result[p] = Some(1)

\* C12 witness: one call has raised on an unknown from xuid with a known to
\* xuid, another on an unknown to xuid with a known from xuid.
C12_Witness ==
    \E p, q \in Procs :
        /\ IsXuidLookup(p) /\ IsXuidLookup(q)
        /\ op[p].xfrom \notin DOMAIN xuid_map /\ op[p].xto \in DOMAIN xuid_map
        /\ op[q].xfrom \in DOMAIN xuid_map /\ op[q].xto \notin DOMAIN xuid_map
        /\ result[p] = Raised /\ result[q] = Raised

\* The lower-case form of an xuid of Xuids.
Lower(xuid) == IF xuid = "USD" THEN "usd" ELSE xuid

\* C13: two kq_fx_get_rate_xuid calls whose xuids differ only in letter case
\* return the same result, and a call whose from and to xuids differ only in
\* letter case returns Some(1.0).
C13_CaseInsensitive ==
    \A p, q \in Procs :
        (IsXuidLookup(p) /\ IsXuidLookup(q)) =>
            /\ (/\ Lower(op[p].xfrom) = Lower(op[q].xfrom)
                /\ Lower(op[p].xto) = Lower(op[q].xto)
                /\ op[p].date = op[q].date)
                   => result[p] = result[q]
            /\ Lower(op[p].xfrom) = Lower(op[p].xto) => result[p] = Some(1)

(* ------------------------------------------ claims on the control protocol *)

\* C14: an ensure_cache_populated call that finds cache_filled true returns
\* at once: the step leaves the control flags, both maps and the three query
\* counters unchanged and hands control back to the caller; the step that
\* starts the call changes none of them either.
C14_FilledEnsureIsNoOp ==
    [][\A p \in Procs :
          /\ (pc[p] = "icf_filled" /\ cache_filled /\ pc'[p] # pc[p])
                 => /\ UNCHANGED <<control, maps, reads>>
                    /\ pc'[p] = AfterEnsure(p)
          /\ (pc[p] = "idle" /\ pc'[p] = "icf_filled")
                 => UNCHANGED <<control, maps, reads>>]_vars

\* C14 witness: two calls are past ensure_cache_populated after one
\* validation and one load: the second found the cache filled.
C14_Witness ==
    /\ invalidations = 0
    /\ cache_filled
    /\ q1_reads = 1 /\ q2_reads = 1 /\ q3_reads = 1
    /\ \E p, q \in Procs : p # q /\ PastEnsure(p) /\ PastEnsure(q)

\* C15: the step that completes a kq_fx_invalidate_cache call leaves both
\* maps empty and both control flags false; and an ensure_cache_populated
\* call that reads both flags false does not return: it goes on to the
\* validation and the population pipeline.
C15_InvalidateEmpties ==
    [][\A p \in Procs :
          /\ (op[p].name = "invalidate" /\ pc[p] # "idle" /\ pc'[p] = "idle")
                 => /\ xuid_map' = EmptyMap
                    /\ data_map' = EmptyMap
                    /\ ~cache_filled'
                    /\ ~cache_being_filled'
                    /\ result'[p] = Done
          /\ (pc[p] = "icf_filled" /\ ~cache_filled /\ pc'[p] # pc[p])
                 => pc'[p] = "icf_being"
          /\ (pc[p] = "icf_being" /\ ~cache_being_filled /\ pc'[p] # pc[p])
                 => pc'[p] \in {"validate", "claim"}]_vars

\* C15 witness: an invalidation has completed and the cache has been loaded
\* a second time after it.
C15_Witness ==
    /\ \E p \in Procs :
          op[p].name = "invalidate" /\ pc[p] = "idle" /\ result[p] = Done
    /\ q2_reads = 2
    /\ q3_reads = 2
    /\ cache_filled

\* C16: an ensure_cache_populated call that waited in is_cache_filled
\* because it read cache_being_filled true returns only when cache_filled
\* is true.
C16_WaiterReturnsOnFilled ==
    [][\A p \in Procs :
          (pc[p] = "icf_wait" /\ pc'[p] # "icf_wait") => cache_filled]_vars

(* ------------------------------------------- population at the capacities *)

CapacityXuids == {"usd", "cad", "eur"}

\* Identity feeds of MAX_CURRENCIES and MAX_CURRENCIES + 1 rows, with and
\* without repeated xuids; the i-th row carries the id i.
CapacityIdentityFeeds ==
    {[i \in DOMAIN x |-> [id |-> i, xuid |-> x[i]]] :
        x \in {y \in UNION {[1..n -> CapacityXuids] :
                              n \in MAX_CURRENCIES..(MAX_CURRENCIES + 1)} :
                   y[1] = "usd"}}

CapacityPairs == {<<1, 2>>, <<2, 1>>, <<1, 3>>}

\* Rate feeds of MAX_ENTRIES and MAX_ENTRIES + 1 rows over three pairs; the
\* i-th row carries the date i.
CapacityRateFeeds ==
    {Stamp([i \in DOMAIN k |-> <<k[i][1], k[i][2], i>>]) :
        k \in {y \in UNION {[1..n -> CapacityPairs] :
                              n \in MAX_ENTRIES..(MAX_ENTRIES + 1)} :
                   y[1] = <<1, 2>>}}

\* The cache as _PG_init left it; one of the two feeds is at or past the
\* capacities.
CapacityInit ==
    /\ cache_filled = FALSE
    /\ cache_being_filled = FALSE
    /\ xuid_map = EmptyMap
    /\ data_map = EmptyMap
    /\ xuid_w = NoProc
    /\ xuid_r = {}
    /\ data_w = NoProc
    /\ pc = [p \in Procs |-> "idle"]
    /\ op = [p \in Procs |-> NoCall]
    /\ result = [p \in Procs |-> NoResult]
    /\ calls = 0
    /\ \/ /\ q2_rows \in CapacityIdentityFeeds
          /\ q3_rows = Stamp(<< <<1, 2, 1>> >>)
       \/ /\ q2_rows \in IdentityFeeds
          /\ q3_rows \in CapacityRateFeeds
    /\ q1_reads = 0
    /\ q2_reads = 0
    /\ q3_reads = 0
    /\ invalidations = 0

\* Population attempts and invalidations, no lookups.
CapacityNext ==
    \E p \in Procs :
        \/ kq_fx_populate_cache(p)
        \/ kq_fx_invalidate_cache(p)
        \/ IcfFilled(p)
        \/ IcfBeing(p)
        \/ IcfWait(p)
        \/ Validate(p)
        \/ LockXuid(p)
        \/ Claim(p)
        \/ LockData(p)
        \/ IdentityPhase(p)
        \/ RatePhase(p)
        \/ Fill(p)
        \/ PopulateReturn(p)
        \/ InvalidateLockXuid(p)
        \/ InvalidateClearVecs(p)
        \/ InvalidateClearMap(p)
        \/ InvalidateControl(p)
        \/ InvalidateClearXuid(p)

CapacitySpec == CapacityInit /\ [][CapacityNext]_vars

\* The xuids of the first n rows of an identity feed.
XuidsIn(rows, n) == {rows[i].xuid : i \in 1..n}

\* The first identity row that brings the distinct xuids past
\* MAX_CURRENCIES, 0 when every row fits.
FirstUnfitXuid(rows) ==
    LET unfit == {i \in DOMAIN rows :
                     Cardinality(XuidsIn(rows, i)) > MAX_CURRENCIES}
    IN  IF unfit = {} THEN 0
        ELSE CHOOSE i \in unfit : \A j \in unfit : i <= j

KeyOf(row) == <<row.from, row.to>>

\* The pairs of the first n rows of a rate feed.
PairsIn(rows, n) == {KeyOf(rows[i]) : i \in 1..n}

\* The <<date, rate>> entries of the first n rows that belong to a pair, in
\* feed order.
RECURSIVE EntriesOf(_, _, _)
EntriesOf(rows, n, key) ==
    IF n = 0 THEN <<>>
    ELSE IF KeyOf(rows[n]) = key
         THEN Append(EntriesOf(rows, n - 1, key), <<rows[n].date, rows[n].rate>>)
         ELSE EntriesOf(rows, n - 1, key)

\* The first rate row that brings the distinct pairs past MAX_ID_PAIRS or its
\* own pair's rows past MAX_ENTRIES, 0 when every row fits.
FirstUnfitRate(rows) ==
    LET unfit == {i \in DOMAIN rows :
                     \/ Cardinality(PairsIn(rows, i)) > MAX_ID_PAIRS
                     \/ Len(EntriesOf(rows, i, KeyOf(rows[i]))) > MAX_ENTRIES}
    IN  IF unfit = {} THEN 0
        ELSE CHOOSE i \in unfit : \A j \in unfit : i <= j

\* C17: a population attempt on a feed with a row that does not fit raises
\* in the phase of that feed, with nothing stored from that row on, and does
\* not set cache_filled; on a feed whose rows all fit, repeated keys
\* included, the loop over all the rows succeeds and stores every key.
C17_CapacityAborts ==
    [][\A p \in Procs :
          LET u == FirstUnfitXuid(q2_rows)
              r == FirstUnfitRate(q3_rows)
          IN  /\ (pc[p] = "q2" /\ pc'[p] # "q2")
                     => /\ u # 0 =>
                             /\ pc'[p] = "idle" /\ result'[p] = Raised
                             /\ DOMAIN xuid_map' \subseteq XuidsIn(q2_rows, u - 1)
                        /\ pc'[p] = "q3" =>
                             DOMAIN xuid_map' = XuidsIn(q2_rows, Len(q2_rows))
              /\ (pc[p] = "q3" /\ pc'[p] # "q3")
                     => /\ r # 0 =>
                             /\ pc'[p] = "idle" /\ result'[p] = Raised
                             /\ DOMAIN data_map' \subseteq PairsIn(q3_rows, r - 1)
                             /\ \A k \in DOMAIN data_map' :
                                   Len(data_map'[k]) <=
                                       Len(EntriesOf(q3_rows, r - 1, k))
                        /\ pc'[p] = "fill" =>
                             \A k \in PairsIn(q3_rows, Len(q3_rows)) :
                                 /\ k \in DOMAIN data_map'
                                 /\ data_map'[k] =
                                        EntriesOf(q3_rows, Len(q3_rows), k)
              /\ (pc[p] = "q2" /\ u = 0)
                     => LoadXuids(xuid_map, q2_rows, Len(q2_rows)).ok
              /\ (pc[p] = "q3" /\ r = 0)
                     => LoadRates(data_map, q3_rows, Len(q3_rows)).ok
              /\ (cache_filled' /\ ~cache_filled) => (u = 0 /\ r = 0)]_vars

\* C17 witness: a rate load has stopped at a row with a new pair when the map
\* held MAX_ID_PAIRS pairs, after taking a row of a stored pair into the full
\* map.
C17_Witness ==
    \E p \in Procs :
        LET r == FirstUnfitRate(q3_rows)
        IN  /\ op[p].name = "populate" /\ pc[p] = "idle"
            /\ result[p] = Raised
            /\ ~cache_filled
            /\ r = Len(q3_rows)
            /\ Cardinality(DOMAIN data_map) = MAX_ID_PAIRS
            /\ Cardinality(PairsIn(q3_rows, r - 2)) = MAX_ID_PAIRS
            /\ \A k \in DOMAIN data_map :
                  data_map[k] = EntriesOf(q3_rows, r - 1, k)

(* ---------------------------------------------- monotonicity of the lookups *)

\* The index in S of the sample whose value p's lookup returned, 0 when it
\* returned none (the values of a stored series are distinct and not 0).
SampleOf(p) ==
    LET S == LookedIn(p)
        hits == {i \in DOMAIN S : result[p] = Some(S[i][2])}
    IN  IF hits = {} THEN 0 ELSE CHOOSE i \in hits : TRUE

\* C18: of two lookups in the same ascending sequence that both resolve to a
\* sample, the one with the later query date resolves to a sample whose date
\* is not earlier.
C18_Monotone ==
    \A p, q \in Procs :
        (/\ IsLookup(p) /\ IsLookup(q)
         /\ LookedIn(p) = LookedIn(q)
         /\ op[p].date < op[q].date
         /\ SampleOf(p) # 0 /\ SampleOf(q) # 0)
            => LookedIn(p)[SampleOf(p)][1] <= LookedIn(q)[SampleOf(q)][1]

\* C18 witness: kq_fx_get_rate has resolved a query inside a sequence of
\* three dates and a query after its last date to different samples.
C18_Witness ==
    \E p, q \in Procs :
        /\ IsLookup(p) /\ IsLookup(q)
        /\ op[p].name = "get_rate" /\ op[q].name = "get_rate"
        /\ LookedIn(p) = LookedIn(q)
        /\ Len(LookedIn(p)) = 3
        /\ op[p].date < op[q].date
        /\ LookedIn(p)[1][1] < op[p].date
        /\ op[q].date > LookedIn(p)[3][1]
        /\ SampleOf(p) = 2 /\ SampleOf(q) = 3

(* ----------------------------------------------- the control state machine *)

Empty(filled, being_filled) == ~filled /\ ~being_filled

Populating(filled, being_filled) == ~filled /\ being_filled

Filled(filled, being_filled) == filled /\ ~being_filled

\* C19: the two flags are never both true, and every step that changes them
\* is the claim of line 202 taking Empty to Populating, the store of lines
\* 298-303 taking Populating to Filled, or the reset of lines 360-363 of
\* kq_fx_invalidate_cache to Empty.
C19_ControlTransitions ==
    [][/\ ~(cache_filled /\ cache_being_filled)
       /\ ~(cache_filled' /\ cache_being_filled')
       /\ control' # control =>
             \E p \in Procs :
                 \/ /\ pc[p] = "claim" /\ pc'[p] = "lock_data"
                    /\ Empty(cache_filled, cache_being_filled)
                    /\ Populating(cache_filled', cache_being_filled')
                 \/ /\ pc[p] = "fill" /\ pc'[p] = "ret"
                    /\ Populating(cache_filled, cache_being_filled)
                    /\ Filled(cache_filled', cache_being_filled')
                 \/ /\ op[p].name = "invalidate"
                    /\ pc[p] = "iv_control" /\ pc'[p] = "iv_clear_xuid"
                    /\ Empty(cache_filled', cache_being_filled')
       /\ \A p \in Procs :
             (pc[p] = "claim" /\ pc'[p] # pc[p])
                 => Empty(cache_filled, cache_being_filled)]_vars

\* C19 witness: a population ran, the cache was invalidated, and a backend
\* has claimed the next population.
C19_Witness ==
    /\ Populating(cache_filled, cache_being_filled)
    /\ invalidations = 1
    /\ q3_reads = 1
    /\ q1_reads = 2
    /\ \E p \in Procs : pc[p] = "lock_data"

(* -------------------------------------------------------- mutual exclusion *)

\* p is inside the population pipeline: it has set cache_being_filled (line
\* 202) and has neither set cache_filled (lines 298-303) nor raised.
InPipeline(p) == pc[p] \in {"lock_data", "q2", "q3", "fill"}

\* p is inside kq_fx_invalidate_cache, past its lock acquisition.
Clearing(p) ==
    pc[p] \in {"iv_clear_vecs", "iv_clear_map", "iv_control", "iv_clear_xuid"}

\* C20: at most one backend is inside the population pipeline, and none is
\* clearing the maps in kq_fx_invalidate_cache while one is.
C20_OnePipeline ==
    \A p, q \in Procs :
        (p # q /\ InPipeline(p)) => (~InPipeline(q) /\ ~Clearing(q))

\* C20 witness: one backend is loading the rates while the other has called
\* kq_fx_invalidate_cache and waits for the xuid map lock.
C20_Witness ==
    \E p, q \in Procs :
        /\ pc[p] = "q3"
        /\ pc[q] = "iv_lock_xuid"
        /\ xuid_w = p

(* ------------------------------------------------------------- progress *)

\* The backends are scheduled fairly: a backend that is inside a call and
\* can take its next step (its lock is free, its loop condition has ended)
\* eventually takes it.  Starting a call is left to the client.
FairSpec == Spec /\ \A p \in Procs : WF_vars(Step(p))

\* p is inside kq_fx_invalidate_cache.
Invalidating(p) == op[p].name = "invalidate" /\ pc[p] # "idle"

\* C21: under fair scheduling every kq_fx_invalidate_cache call that has
\* started eventually completes.
C21_InvalidateCompletes ==
    \A p \in Procs : Invalidating(p) ~> (pc[p] = "idle")

\* A step of p other than a failure of the identity or of the rate phase:
\* both selects succeed and every row is complete and fits.
NoFailStep(p) ==
    /\ Step(p)
    /\ ~(pc[p] \in {"q2", "q3"} /\ pc'[p] = "idle")

NoFailNext ==
    \E p \in Procs :
        \/ kq_fx_populate_cache(p)
        \/ \E ids \in SpecIdPairs, date \in SpecDates :
              kq_fx_get_rate(p, ids[1], ids[2], date)
        \/ \E xuids \in SpecXuidPairs, date \in SpecDates :
              kq_fx_get_rate_xuid(p, xuids[1], xuids[2], date)
        \/ kq_fx_display_cache(p)
        \/ kq_fx_invalidate_cache(p)
        \/ NoFailStep(p)

\* The behaviours in which no population attempt fails, fairly scheduled.
NoFailSpec ==
    Init /\ [][NoFailNext]_vars /\ \A p \in Procs : WF_vars(NoFailStep(p))

\* p is inside ensure_cache_populated.
InEnsure(p) ==
    pc[p] \in {"icf_filled", "icf_being", "icf_wait", "validate", "lock_xuid",
               "claim", "lock_data", "q2", "q3", "fill", "ret"}

\* C22: when no population attempt fails, under fair scheduling every
\* ensure_cache_populated call eventually returns (or raises at the
\* validation).
C22_EnsureReturns ==
    \A p \in Procs : InEnsure(p) ~> ~InEnsure(p)

\* C22 witness: after an invalidation, one backend sleeps in the loop of
\* is_cache_filled while the other is inside the pipeline.
C22_Witness ==
    \E p, q \in Procs :
        /\ pc[p] = "icf_wait"
        /\ InPipeline(q)
        /\ invalidations = 1

(* ------------------------------------------- what a population leaves stored *)

\* Population, display and invalidation on the feeds of CapacityInit.
ContentNext ==
    \/ CapacityNext
    \/ \E p \in Procs :
          \/ kq_fx_display_cache(p)
          \/ DisplayRead(p)

ContentSpec == CapacityInit /\ [][ContentNext]_vars

\* The id of the last row of an identity feed that carries an xuid.
LastId(rows, xuid) ==
    LET at == {i \in DOMAIN rows : rows[i].xuid = xuid}
    IN  rows[CHOOSE i \in at : \A j \in at : j <= i].id

\* The rows of a rate feed as (from_id, to_id, date, rate).
FeedRows(rows) ==
    {<<rows[i].from, rows[i].to, rows[i].date, rows[i].rate>> :
        i \in DOMAIN rows}

\* C23: at the end of a successful population the data map holds exactly the
\* pairs of the rate feed, each with its own rows in feed order, and the xuid
\* map one entry for each distinct xuid of the identity feed; and
\* kq_fx_display_cache returns the rows of the stored series, which are the
\* rows of the rate feed when no invalidation has been called.
C23_PopulatedContent ==
    [][\A p \in Procs :
          /\ (pc[p] = "fill" /\ pc'[p] = "ret")
                 => /\ DOMAIN data_map' = PairsIn(q3_rows, Len(q3_rows))
                    /\ \A k \in DOMAIN data_map' :
                          data_map'[k] = EntriesOf(q3_rows, Len(q3_rows), k)
                    /\ DOMAIN xuid_map' = XuidsIn(q2_rows, Len(q2_rows))
                    /\ \A x \in DOMAIN xuid_map' :
                          xuid_map'[x] = LastId(q2_rows, x)
          /\ (op[p].name = "display" /\ pc[p] # "idle" /\ pc'[p] = "idle"
                 /\ result'[p] # Raised)
                 => /\ result'[p] = Rows(DisplayRows(data_map))
                    /\ invalidations = 0 => result'[p].val = FeedRows(q3_rows)]_vars

\* C23 witness: kq_fx_display_cache has returned the MAX_ENTRIES rows of a
\* feed with two pairs, one of them with more than one row.
C23_Witness ==
    \E p \in Procs :
        /\ op[p].name = "display" /\ pc[p] = "idle"
        /\ result[p] = Rows(FeedRows(q3_rows))
        /\ cache_filled
        /\ Len(q3_rows) = MAX_ENTRIES
        /\ Cardinality(DOMAIN data_map) = 2
        /\ \E k \in DOMAIN data_map : Len(data_map[k]) > 1

(* ------------------------------------------- readers against invalidation *)

\* C24: whenever cache_filled is true, both maps hold everything the feeds
\* load: the flag is not true while a map is cleared or partly cleared.
C24_FilledMeansComplete ==
    cache_filled =>
        /\ xuid_map = LoadXuids(EmptyMap, q2_rows, Len(q2_rows)).map
        /\ data_map = LoadRates(EmptyMap, q3_rows, Len(q3_rows)).map

\* C25: whenever the data map lock has no exclusive holder, so that a reader
\* can take it in shared mode, every key of the data map has a non-empty
\* series.
C25_NoEmptySeries ==
    data_w = NoProc => \A k \in DOMAIN data_map : data_map[k] # <<>>

====
